---------------------------- MODULE Spec2Model ----------------------------
(***************************************************************************)
(* Model of src/pykv/static/js/app.js: the browser-side control panel of   *)
(* the pykv key-value store.                                               *)
(*                                                                         *)
(* The page runs one JavaScript thread.  Every async function is a chain   *)
(* of run-to-completion segments separated by awaits; each segment is one  *)
(* action here.  A chain that has issued its fetch is an entry of `tasks`: *)
(* pc = "fetch" while the request is on its way to the store, pc = "resp"  *)
(* once the store has answered and the response is on its way back.  The   *)
(* resuming segment of the chain consumes the response and removes the     *)
(* entry.  `await res.json()` directly follows `await fetch` wherever it   *)
(* is used and nothing is read or written between the two, so the two      *)
(* awaits are resumed in one step; whether the body parses is an input of  *)
(* that step.                                                              *)
(*                                                                         *)
(* Text is a sequence of tokens (a token is a character or a literal       *)
(* chunk); the leading emoji of the status messages are written "[ok] "    *)
(* and "[x] ".                                                             *)
(***************************************************************************)
EXTENDS Integers, Sequences, FiniteSets, TLC

\* ------------------------------------------------------------------ bounds
\* Number of operator-triggered invocations (button clicks, entry clicks)
\* in one page session.
MaxOps == 2

\* What the operator may have typed into the #getKey and #delKey fields and
\* into the #key, #value and #ttl fields (raw, before trim()).
KeyInputs == {<<"a">>, <<" ", "b", " ">>}
SetInputs ==
  {[key |-> <<"a">>, value |-> <<"1">>, ttl |-> <<>>],
   [key |-> <<"a", " ">>, value |-> <<" ", "2">>, ttl |-> <<" ", "5">>],
   [key |-> <<" ", "b">>, value |-> <<"1">>, ttl |-> <<" ">>]}

\* Page layouts: the ids of the elements the hosting page has.
AllElems == {"statusBox", "keysList", "getResult", "statsBox"}
Layouts == {AllElems, AllElems \ {"statusBox", "keysList"}}

\* JSON null / an absent optional: the empty sequence; a present value v is <<v>>.
Null == <<>>

VARIABLES
  present,      \* ids of the elements the page has (fixed per session)
  statusBox,    \* [innerText, color] of #statusBox
  keysList,     \* innerText of the <li> children of #keysList, in order
  getResult,    \* innerText of #getResult
  getKeyField,  \* value of the #getKey input
  statsBox,     \* innerText of #statsBox
  alertMsg,     \* <<text>> of the open alert() dialog, Null when none is open
  store,        \* the remote store: a function from its keys to their records
  tasks,        \* async chains suspended on a fetch, in issue order
  loaded,       \* window.onload has fired
  ops,          \* operator invocations so far
  last,         \* history: the last segment that resumed a chain or called loadKeys()
  prev          \* history: <<what the last completed refresh rendered>>

vars == <<present, statusBox, keysList, getResult, getKeyField, statsBox,
          alertMsg, store, tasks, loaded, ops, last, prev>>

\* ------------------------------------------------------------------ text
IsSpace(c) == c = " "

RECURSIVE TrimStart(_)
TrimStart(s) ==
  IF s # <<>> /\ IsSpace(Head(s)) THEN TrimStart(Tail(s)) ELSE s

RECURSIVE TrimEnd(_)
TrimEnd(s) ==
  IF s # <<>> /\ IsSpace(s[Len(s)]) THEN TrimEnd(SubSeq(s, 1, Len(s) - 1)) ELSE s

\* String.prototype.trim
Trim(s) == TrimEnd(TrimStart(s))

Digits == {"0", "1", "2", "3", "4", "5", "6", "7", "8", "9"}

DigitVal(c) ==
  CASE c = "0" -> 0 [] c = "1" -> 1 [] c = "2" -> 2 [] c = "3" -> 3
    [] c = "4" -> 4 [] c = "5" -> 5 [] c = "6" -> 6 [] c = "7" -> 7
    [] c = "8" -> 8 [] c = "9" -> 9

RECURSIVE DigitRun(_, _)
\* The longest digit prefix of s read as a decimal number on top of acc:
\* <<n>>, or acc unchanged when s starts with no digit.
DigitRun(s, acc) ==
  IF s # <<>> /\ Head(s) \in Digits
    THEN DigitRun(Tail(s), <<10 * (IF acc = <<>> THEN 0 ELSE acc[1]) + DigitVal(Head(s))>>)
    ELSE acc

\* parseInt(s) in radix 10: leading white space, an optional sign, then the
\* longest digit prefix.  <<n>> for a number, <<>> for NaN.
ParseInt(s) ==
  LET t == TrimStart(s)
      neg == t # <<>> /\ Head(t) = "-"
      u == IF t # <<>> /\ Head(t) \in {"-", "+"} THEN Tail(t) ELSE t
      n == DigitRun(u, <<>>)
  IN IF n = <<>> THEN <<>> ELSE IF neg THEN <<0 - n[1]>> ELSE n

\* JSON.stringify of a number field: NaN is written as null.
JsonNumber(n) == IF n = <<>> THEN Null ELSE n

\* ---------------------------------------------------------------- status
\* Mutant of ShowStatus: the line is coloured green whatever ok is.
ShowStatus_AlwaysGreen(box, msg, ok) ==
  IF "statusBox" \notin present THEN box
  ELSE [innerText |-> msg, color |-> "green"]

\* showStatus(msg, ok): a silent no-op on a page without #statusBox.
ShowStatus(box, msg, ok) ==
  IF "statusBox" \notin present THEN box
  ELSE [innerText |-> msg, color |-> IF ok THEN "green" ELSE "red"]

\* Message texts of the showStatus calls.
SavedMsg == <<"[ok] Key saved successfully">>
FetchedMsg == <<"[ok] Key fetched successfully">>
NotFoundMsg == <<"[x] Key not found">>
NotFoundText == <<"Key not found">>
ClearFailMsg == <<"[x] Error clearing store">>
DeletedMsg(key) == <<"[ok] Key deleted: ">> \o key
ClearedMsg(message) == <<"[ok] ">> \o message
\* Mutant of KeysLoadedMsg: the message does not carry the count of the response.
KeysLoadedMsg_NoCount(count) == <<"[ok] Keys loaded (", "0", ")">>
KeysLoadedMsg(count) == <<"[ok] Keys loaded (", ToString(count), ")">>
\* "[x] " + (data.detail || "Error"): an absent and an empty detail are falsy.
FailMsg(detail) == <<"[x] ">> \o (IF detail = <<>> THEN <<"Error">> ELSE detail)
\* Mutant of CompactText: the dialog shows the default text whatever the
\* server said.
CompactText_Default(message) == <<"WAL compacted">>

\* data.message || "WAL compacted"
CompactText(message) == IF message = <<>> THEN <<"WAL compacted">> ELSE message

\* JSON.stringify(data, null, 2) of a key record.
TtlText(ttl) == IF ttl = Null THEN <<"null">> ELSE <<ToString(ttl[1])>>
Stringify(rec) ==
  <<"{key: ">> \o rec.key \o <<", value: ">> \o rec.value
     \o <<", ttl: ">> \o TtlText(rec.ttl) \o <<"}">>

\* ----------------------------------------------------------------- tasks
Mutators == {"set", "delete", "clear"}

\* Why a refresh was started: by window.onload ("load"), by the operator
\* ("click"), or by the chain of a request (its kind, whether its response had
\* arrived when the refresh was started, whether that response was 2xx, and
\* whether the store has accepted no mutation since it answered that chain).
NoCause == [kind |-> "none", answered |-> FALSE, ok |-> FALSE, quiet |-> TRUE]
Direct(why) == [kind |-> why, answered |-> FALSE, ok |-> FALSE, quiet |-> TRUE]
CauseOf(t) ==
  [kind |-> t.kind, answered |-> t.pc = "resp", ok |-> t.ok, quiet |-> t.quiet]

\* A chain suspended on fetch(url): the locals it keeps (key), the request
\* (url, value, ttl), the response once the store has answered (ok, keys,
\* count, rec, message), and history (cause, alone, quiet, base; typed: the
\* raw text of the field or entry the request was built from; clean: no
\* refresh has rendered since this one was started; after: <<the set or
\* delete of the same key whose success segment ran right before this get>>).
Task(kind, url, key, value, ttl) ==
  [kind |-> kind, pc |-> "fetch", url |-> url, key |-> key, value |-> value,
   ttl |-> ttl, ok |-> FALSE, keys |-> <<>>, count |-> 0, rec |-> <<>>,
   message |-> <<>>, cause |-> NoCause, alone |-> TRUE, quiet |-> TRUE,
   base |-> <<>>, typed |-> <<>>, clean |-> TRUE, after |-> <<>>]

NoTask == Task("none", <<>>, <<>>, <<>>, Null)

\* History record of a chain segment: phase is "issued" (the segment called
\* loadKeys() from window.onload or a click), "ok" / "fail" (the resuming segment took the success /
\* failure branch), "alert" (compactWAL stopped in alert()), "rejected" (the
\* chain ended on a body it could not use) or "lost" (its fetch rejected).
Seg(phase, t, detail) == [phase |-> phase, task |-> t, detail |-> detail]

Remove(ts, i) == SubSeq(ts, 1, i - 1) \o SubSeq(ts, i + 1, Len(ts))

Range(s) == {s[j] : j \in DOMAIN s}

\* Template literal `/get/${key}` and `/delete/${key}`: the key is pasted into
\* the URL as it is (no encodeURIComponent).
Url(prefix, key) == <<prefix>> \o key

\* ---------------------------------------------------------------- store
\* The remote store, as the HTTP contract describes it.
KeyOrder == <<<<"a">>, <<"a", "?", "b">>, <<"b">>>>
ClearMessages == {<<"All keys cleared">>}
CompactMessages == {<<>>, <<"Compaction done">>}
InitStores == {<<>>, [k \in {<<"a">>} |-> [value |-> <<"1">>, ttl |-> Null]]}

StoreKeys(st) == SelectSeq(KeyOrder, LAMBDA k : k \in DOMAIN st)
StorePut(st, key, rec) ==
  [k \in DOMAIN st \cup {key} |-> IF k = key THEN rec ELSE st[k]]
StoreDel(st, key) == [k \in DOMAIN st \ {key} |-> st[k]]
StatsText(st) == <<"{total_keys: ", ToString(Cardinality(DOMAIN st)), "}">>
ErrorBody == <<"{detail: ...}">>

\* The {key} path parameter the server reads from what follows the route
\* prefix in a request URL: the path ends at the first "?" (query) or "#"
\* (fragment).
RECURSIVE PathKey(_)
PathKey(rest) ==
  IF rest = <<>> \/ Head(rest) \in {"?", "#"} THEN <<>>
  ELSE <<Head(rest)>> \o PathKey(Tail(rest))

\* The message field a 2xx answer of each route may carry.
MessagesFor(route) ==
  CASE route = "/clear" -> ClearMessages
    [] route = "/compact" -> CompactMessages
    [] OTHER -> {<<>>}

\* The store has accepted a mutation: no refresh in flight, no answered
\* mutation, no get on its way to the store, and no rendering remembered, is
\* from after the last mutation any more.
Disturb(t) ==
  IF t.kind = "keys" \/ (t.kind \in Mutators /\ t.pc = "resp")
       \/ (t.kind = "get" /\ t.pc = "fetch")
    THEN [t EXCEPT !.quiet = FALSE]
    ELSE t
DisturbAll(ts) == [j \in DOMAIN ts |-> Disturb(ts[j])]
DisturbSeg(seg) ==
  IF seg.task.kind \in {"keys"} \cup Mutators
    THEN [seg EXCEPT !.task = [seg.task EXCEPT !.quiet = FALSE]]
    ELSE seg

\* The store answers request i: 2xx when it accepts (and the key exists, for
\* get and delete), non-2xx otherwise.
StoreAnswer(i, accept, msg) ==
  /\ i \in DOMAIN tasks
  /\ tasks[i].pc = "fetch"
  /\ msg \in MessagesFor(Head(tasks[i].url))
  /\ LET t == tasks[i]
         route == Head(t.url)
         key == PathKey(Tail(t.url))
         hit == accept /\ key \in DOMAIN store
         answered == [t EXCEPT !.pc = "resp"]
     IN CASE route = "/set" ->
               IF accept
                 THEN /\ store' = StorePut(store, t.key, [value |-> t.value, ttl |-> t.ttl])
                      /\ tasks' = [DisturbAll(tasks) EXCEPT ![i] = [answered EXCEPT !.ok = TRUE]]
                      /\ last' = DisturbSeg(last)
                      /\ prev' = <<>>
                 ELSE /\ tasks' = [tasks EXCEPT ![i] = answered]
                      /\ UNCHANGED <<store, last, prev>>
          [] route = "/get/" ->
               /\ tasks' = [tasks EXCEPT ![i] =
                     IF hit THEN [answered EXCEPT !.ok = TRUE,
                                    !.rec = <<[key |-> key, value |-> store[key].value,
                                               ttl |-> store[key].ttl]>>]
                     ELSE answered]
               /\ UNCHANGED <<store, last, prev>>
          [] route = "/delete/" ->
               IF hit
                 THEN /\ store' = StoreDel(store, key)
                      /\ tasks' = [DisturbAll(tasks) EXCEPT ![i] = [answered EXCEPT !.ok = TRUE]]
                      /\ last' = DisturbSeg(last)
                      /\ prev' = <<>>
                 ELSE /\ tasks' = [tasks EXCEPT ![i] = answered]
                      /\ UNCHANGED <<store, last, prev>>
          [] route = "/keys" ->
               /\ tasks' = [tasks EXCEPT ![i] =
                     IF accept THEN [answered EXCEPT !.ok = TRUE,
                                       !.keys = StoreKeys(store),
                                       !.count = Cardinality(DOMAIN store)]
                     ELSE answered]
               /\ UNCHANGED <<store, last, prev>>
          [] route = "/clear" ->
               IF accept
                 THEN /\ store' = <<>>
                      /\ tasks' = [DisturbAll(tasks) EXCEPT ![i] =
                            [answered EXCEPT !.ok = TRUE, !.message = msg]]
                      /\ last' = DisturbSeg(last)
                      /\ prev' = <<>>
                 ELSE /\ tasks' = [tasks EXCEPT ![i] = answered]
                      /\ UNCHANGED <<store, last, prev>>
          [] route = "/stats" ->
               /\ tasks' = [tasks EXCEPT ![i] =
                     IF accept THEN [answered EXCEPT !.ok = TRUE, !.message = StatsText(store)]
                     ELSE [answered EXCEPT !.message = ErrorBody]]
               /\ UNCHANGED <<store, last, prev>>
          [] route = "/compact" ->
               /\ tasks' = [tasks EXCEPT ![i] =
                     IF accept THEN [answered EXCEPT !.ok = TRUE, !.message = msg]
                     ELSE answered]
               /\ UNCHANGED <<store, last, prev>>
  /\ UNCHANGED <<present, statusBox, keysList, getResult, getKeyField, statsBox,
                 alertMsg, loaded, ops>>

\* --------------------------------------------------------------- client
\* The JavaScript thread can run a segment: no alert() dialog is blocking it.
JsIdle == alertMsg = Null

HasList == "keysList" \in present

\* Mutant of LoadKeysList: the list is not emptied when a refresh starts.
LoadKeysList_Keep(list) == list

\* loadKeys() up to its first await (lines 66-72), as called with `ts` the
\* other suspended chains: nothing on a page without #keysList, else the list
\* is emptied and GET /keys is issued.
LoadKeysList(list) == IF HasList THEN <<>> ELSE list

\* Mutant of LoadKeysTasks: the fetch of /keys is never issued.
LoadKeysTasks_Skip(ts, cause) == ts

LoadKeysTasks(ts, cause) ==
  IF ~HasList THEN ts
  ELSE Append([j \in DOMAIN ts |->
                 IF ts[j].kind = "keys" THEN [ts[j] EXCEPT !.alone = FALSE] ELSE ts[j]],
              [Task("keys", <<"/keys">>, <<>>, <<>>, Null) EXCEPT
                 !.cause = cause,
                 !.quiet = cause.quiet,
                 !.alone = \A j \in DOMAIN ts : ts[j].kind # "keys",
                 !.base = prev])
LoadKeysPrev(p) == IF HasList THEN <<>> ELSE p

\* Mutant of SetKeySucceeded: the success branch is taken whatever res.ok is.
SetKeySucceeded_Always(t) == TRUE

\* The branch conditions of the resuming segments.
SetKeySucceeded(t) == t.ok
DeleteKeySucceeded(t) == t.ok
ClearAllSucceeded(t) == t.ok
GetKeySucceeded(t) == t.ok

\* Which resuming segments read the body (await res.json()) before they
\* look at res.ok, and which read it at all.
SetKeyReadsBody(t) == ~SetKeySucceeded(t)
DeleteKeyReadsBody(t) == TRUE
ClearAllReadsBody(t) == TRUE
GetKeyReadsBody(t) == TRUE

\* Mutant of Waiting: responses are handled in the order the requests were
\* issued, so a request without a response holds up every later chain.
Waiting_InOrder(i, kind) ==
  /\ JsIdle
  /\ i = 1
  /\ i \in DOMAIN tasks
  /\ tasks[i].kind = kind
  /\ tasks[i].pc = "resp"

\* Chain i of the given kind can resume: its response has arrived and the
\* thread is free; no chain waits for another.
Waiting(i, kind) ==
  /\ JsIdle
  /\ i \in DOMAIN tasks
  /\ tasks[i].kind = kind
  /\ tasks[i].pc = "resp"

\* An uncaught rejection ends chain i and nothing else happens; phase is
\* "lost" (fetch rejected) or "rejected" (res.json() rejected, or a TypeError).
Rejected(i, phase) ==
  /\ tasks' = Remove(tasks, i)
  /\ last' = Seg(phase, tasks[i], <<>>)
  /\ UNCHANGED <<statusBox, keysList, getResult, getKeyField, statsBox, alertMsg, prev>>

\* window.onload (lines 125-127)
OnLoad ==
  /\ JsIdle
  /\ ~loaded
  /\ loaded' = TRUE
  /\ keysList' = LoadKeysList(keysList)
  /\ tasks' = LoadKeysTasks(tasks, Direct("load"))
  /\ prev' = LoadKeysPrev(prev)
  /\ last' = Seg("issued", [NoTask EXCEPT !.kind = "load"], <<>>)
  /\ UNCHANGED <<present, statusBox, getResult, getKeyField, statsBox, alertMsg,
                 store, ops>>

\* Mutant of TtlOf: an empty field is sent as the number 0.
TtlOf_Zero(ttlRaw) ==
  IF ttlRaw # <<>> THEN JsonNumber(ParseInt(ttlRaw)) ELSE <<0>>

\* `ttlRaw ? parseInt(ttlRaw) : null` (line 16), as JSON.stringify writes it
\* into the request body (line 21).
TtlOf(ttlRaw) ==
  IF ttlRaw # <<>> THEN JsonNumber(ParseInt(ttlRaw)) ELSE Null

\* setKey() up to its await (lines 12-22)
SetKey(keyIn, valueIn, ttlIn) ==
  /\ JsIdle
  /\ ops < MaxOps
  /\ ops' = ops + 1
  /\ LET key == Trim(keyIn)
         value == Trim(valueIn)
         ttlRaw == Trim(ttlIn)
         ttl == TtlOf(ttlRaw)
         t == [Task("set", <<"/set">>, key, value, ttl) EXCEPT !.typed = ttlIn]
     IN tasks' = Append(tasks, t)
  /\ UNCHANGED <<present, last, statusBox, keysList, getResult, getKeyField, statsBox,
                 alertMsg, store, loaded, prev>>

\* setKey() after its await (lines 24-30)
SetKeyResume(i, parsed, detail) ==
  /\ Waiting(i, "set")
  /\ LET t == tasks[i]
         rest == Remove(tasks, i)
     IN IF SetKeyReadsBody(t) /\ ~parsed THEN Rejected(i, "rejected")
        ELSE IF SetKeySucceeded(t)
          THEN /\ statusBox' = ShowStatus(statusBox, SavedMsg, TRUE)
               /\ keysList' = LoadKeysList(keysList)
               /\ tasks' = LoadKeysTasks(rest, CauseOf(t))
               /\ prev' = LoadKeysPrev(prev)
               /\ last' = Seg("ok", t, <<>>)
               /\ UNCHANGED <<getResult, getKeyField, statsBox, alertMsg>>
          ELSE /\ statusBox' = ShowStatus(statusBox, FailMsg(detail), FALSE)
               /\ tasks' = rest
               /\ last' = Seg("fail", t, detail)
               /\ UNCHANGED <<keysList, getResult, getKeyField, statsBox, alertMsg, prev>>
  /\ UNCHANGED <<present, store, loaded, ops>>

\* History: <<the set or delete of `key` whose success segment ran last, the
\* store having accepted no mutation since it answered that request>>.
After(seg, key) ==
  IF seg.phase = "ok" /\ seg.task.kind \in {"set", "delete"}
       /\ seg.task.key = key /\ seg.task.quiet
    THEN <<[kind |-> seg.task.kind, value |-> seg.task.value, ttl |-> seg.task.ttl]>>
    ELSE <<>>

\* getKey() up to its first await (lines 34-38), reading the #getKey field;
\* `why` is who called it: the button ("click") or a list entry ("entry").
GetKeyStart(field, why) ==
  LET key == Trim(field)
      t == [Task("get", Url("/get/", key), key, <<>>, Null) EXCEPT
              !.cause = Direct(why), !.typed = field, !.after = After(last, key)]
  IN tasks' = Append(tasks, t)

\* The operator types into #getKey and presses the button.
GetKey(keyIn) ==
  /\ JsIdle
  /\ ops < MaxOps
  /\ ops' = ops + 1
  /\ getKeyField' = keyIn
  /\ GetKeyStart(keyIn, "click")
  /\ UNCHANGED <<present, last, statusBox, keysList, getResult, statsBox, alertMsg,
                 store, loaded, prev>>

\* li.onclick of the n-th rendered entry (lines 80-83): k is the entry's key.
EntryClick(n) ==
  /\ JsIdle
  /\ ops < MaxOps
  /\ n \in DOMAIN keysList
  /\ ops' = ops + 1
  /\ getKeyField' = keysList[n]
  /\ GetKeyStart(keysList[n], "entry")
  /\ UNCHANGED <<present, last, statusBox, keysList, getResult, statsBox, alertMsg,
                 store, loaded, prev>>

\* getKey() after its awaits (lines 39-47)
GetKeyResume(i, parsed) ==
  /\ Waiting(i, "get")
  /\ LET t == tasks[i]
     IN IF (GetKeyReadsBody(t) /\ ~parsed) \/ "getResult" \notin present
          THEN Rejected(i, "rejected")
        ELSE /\ tasks' = Remove(tasks, i)
             /\ IF GetKeySucceeded(t)
                  THEN /\ getResult' = Stringify(t.rec[1])
                       /\ statusBox' = ShowStatus(statusBox, FetchedMsg, TRUE)
                       /\ last' = Seg("ok", t, <<>>)
                  ELSE /\ getResult' = NotFoundText
                       /\ statusBox' = ShowStatus(statusBox, NotFoundMsg, FALSE)
                       /\ last' = Seg("fail", t, <<>>)
             /\ UNCHANGED <<keysList, getKeyField, statsBox, alertMsg, prev>>
  /\ UNCHANGED <<present, store, loaded, ops>>

\* deleteKey() up to its await (lines 51-54)
DeleteKey(keyIn) ==
  /\ JsIdle
  /\ ops < MaxOps
  /\ ops' = ops + 1
  /\ LET key == Trim(keyIn)
         t == Task("delete", Url("/delete/", key), key, <<>>, Null)
     IN tasks' = Append(tasks, t)
  /\ UNCHANGED <<present, last, statusBox, keysList, getResult, getKeyField, statsBox,
                 alertMsg, store, loaded, prev>>

\* deleteKey() after its awaits (lines 55-62)
DeleteKeyResume(i, parsed, detail) ==
  /\ Waiting(i, "delete")
  /\ LET t == tasks[i]
         rest == Remove(tasks, i)
     IN IF DeleteKeyReadsBody(t) /\ ~parsed THEN Rejected(i, "rejected")
        ELSE IF DeleteKeySucceeded(t)
          THEN /\ statusBox' = ShowStatus(statusBox, DeletedMsg(t.key), TRUE)
               /\ keysList' = LoadKeysList(keysList)
               /\ tasks' = LoadKeysTasks(rest, CauseOf(t))
               /\ prev' = LoadKeysPrev(prev)
               /\ last' = Seg("ok", t, <<>>)
               /\ UNCHANGED <<getResult, getKeyField, statsBox, alertMsg>>
          ELSE /\ statusBox' = ShowStatus(statusBox, FailMsg(detail), FALSE)
               /\ tasks' = rest
               /\ last' = Seg("fail", t, detail)
               /\ UNCHANGED <<keysList, getResult, getKeyField, statsBox, alertMsg, prev>>
  /\ UNCHANGED <<present, store, loaded, ops>>

\* loadKeys() called by the operator (lines 66-72)
LoadKeys ==
  /\ JsIdle
  /\ ops < MaxOps
  /\ ops' = ops + 1
  /\ keysList' = LoadKeysList(keysList)
  /\ tasks' = LoadKeysTasks(tasks, Direct("click"))
  /\ prev' = LoadKeysPrev(prev)
  /\ last' = Seg("issued", [NoTask EXCEPT !.kind = "click"], <<>>)
  /\ UNCHANGED <<present, statusBox, getResult, getKeyField, statsBox, alertMsg,
                 store, loaded>>

\* History: a refresh has rendered; the refreshes still in flight are no
\* longer clean.
Rendered(ts) ==
  [j \in DOMAIN ts |->
     IF ts[j].kind = "keys" THEN [ts[j] EXCEPT !.clean = FALSE] ELSE ts[j]]

\* Mutant of LoadKeysRender: the first key of the response is not rendered.
LoadKeysRender_DropFirst(list, keys) ==
  list \o (IF keys = <<>> THEN <<>> ELSE Tail(keys))

\* data.keys.forEach(...appendChild(li)) (lines 75-86): one entry per key of
\* the response, after whatever the list holds.
LoadKeysRender(list, keys) == list \o keys

\* loadKeys() after its awaits (lines 73-88).  A body that is no JSON, or a
\* non-2xx answer (its body has no keys array), ends the chain in a rejection.
LoadKeysResume(i, parsed) ==
  /\ Waiting(i, "keys")
  /\ LET t == tasks[i]
     IN IF ~parsed \/ ~t.ok THEN Rejected(i, "rejected")
        ELSE /\ keysList' = LoadKeysRender(keysList, t.keys)
             /\ statusBox' = ShowStatus(statusBox, KeysLoadedMsg(t.count), TRUE)
             /\ tasks' = Rendered(Remove(tasks, i))
             /\ last' = Seg("ok", t, <<>>)
             /\ prev' = IF t.quiet
                          THEN <<[list |-> keysList', status |-> statusBox']>>
                          ELSE <<>>
             /\ UNCHANGED <<getResult, getKeyField, statsBox, alertMsg>>
  /\ UNCHANGED <<present, store, loaded, ops>>

\* clearAll() up to its await (lines 92-93)
ClearAll ==
  /\ JsIdle
  /\ ops < MaxOps
  /\ ops' = ops + 1
  /\ LET t == Task("clear", <<"/clear">>, <<>>, <<>>, Null)
     IN tasks' = Append(tasks, t)
  /\ UNCHANGED <<present, last, statusBox, keysList, getResult, getKeyField, statsBox,
                 alertMsg, store, loaded, prev>>

\* clearAll() after its awaits (lines 94-103)
ClearAllResume(i, parsed) ==
  /\ Waiting(i, "clear")
  /\ LET t == tasks[i]
         rest == Remove(tasks, i)
     IN IF ClearAllReadsBody(t) /\ ~parsed THEN Rejected(i, "rejected")
        ELSE IF ClearAllSucceeded(t)
          THEN /\ statusBox' = ShowStatus(statusBox, ClearedMsg(t.message), TRUE)
               /\ keysList' = LoadKeysList(keysList)
               /\ tasks' = LoadKeysTasks(rest, CauseOf(t))
               /\ prev' = LoadKeysPrev(prev)
               /\ getResult' = IF "getResult" \in present THEN <<>> ELSE getResult
               /\ last' = Seg("ok", t, <<>>)
               /\ UNCHANGED <<getKeyField, statsBox, alertMsg>>
          ELSE /\ statusBox' = ShowStatus(statusBox, ClearFailMsg, FALSE)
               /\ tasks' = rest
               /\ last' = Seg("fail", t, <<>>)
               /\ UNCHANGED <<keysList, getResult, getKeyField, statsBox, alertMsg, prev>>
  /\ UNCHANGED <<present, store, loaded, ops>>

\* loadStats() up to its await (lines 107-110), as called with `ts` the other
\* suspended chains.
LoadStatsTasks(ts, cause) ==
  Append(ts, [Task("stats", <<"/stats">>, <<>>, <<>>, Null) EXCEPT !.cause = cause])

\* loadStats() called by the operator
LoadStats ==
  /\ JsIdle
  /\ ops < MaxOps
  /\ ops' = ops + 1
  /\ tasks' = LoadStatsTasks(tasks, Direct("click"))
  /\ UNCHANGED <<present, last, statusBox, keysList, getResult, getKeyField, statsBox,
                 alertMsg, store, loaded, prev>>

\* loadStats() after its awaits (lines 111-113): whatever JSON came back is
\* rendered, res.ok is not looked at.
LoadStatsResume(i, parsed) ==
  /\ Waiting(i, "stats")
  /\ LET t == tasks[i]
     IN IF ~parsed \/ "statsBox" \notin present THEN Rejected(i, "rejected")
        ELSE /\ statsBox' = t.message
             /\ tasks' = Remove(tasks, i)
             /\ last' = Seg("ok", t, <<>>)
             /\ UNCHANGED <<statusBox, keysList, getResult, getKeyField, alertMsg, prev>>
  /\ UNCHANGED <<present, store, loaded, ops>>

\* compactWAL() up to its await (lines 117-118)
CompactWAL ==
  /\ JsIdle
  /\ ops < MaxOps
  /\ ops' = ops + 1
  /\ LET t == Task("compact", <<"/compact">>, <<>>, <<>>, Null)
     IN tasks' = Append(tasks, t)
  /\ UNCHANGED <<present, last, statusBox, keysList, getResult, getKeyField, statsBox,
                 alertMsg, store, loaded, prev>>

\* compactWAL() from its awaits into alert() (lines 119-120): the dialog
\* blocks the thread; res.ok is not looked at.
CompactResume(i, parsed) ==
  /\ Waiting(i, "compact")
  /\ LET t == tasks[i]
     IN IF ~parsed THEN Rejected(i, "rejected")
        ELSE /\ alertMsg' = <<CompactText(t.message)>>
             /\ tasks' = Remove(tasks, i)
             /\ last' = Seg("alert", t, <<>>)
             /\ UNCHANGED <<statusBox, keysList, getResult, getKeyField, statsBox, prev>>
  /\ UNCHANGED <<present, store, loaded, ops>>

\* The operator dismisses the dialog: alert() returns and compactWAL() calls
\* loadStats() (line 121).
AlertDismiss ==
  /\ alertMsg # Null
  /\ alertMsg' = Null
  /\ tasks' = LoadStatsTasks(tasks, CauseOf([last.task EXCEPT !.pc = "resp"]))
  /\ last' = Seg("ok", last.task, <<>>)
  /\ UNCHANGED <<present, statusBox, keysList, getResult, getKeyField, statsBox,
                 store, loaded, ops, prev>>

\* fetch() of chain i rejects (the request or its response is lost).
NetFail(i) ==
  /\ JsIdle
  /\ i \in DOMAIN tasks
  /\ Rejected(i, "lost")
  /\ UNCHANGED <<present, store, loaded, ops>>

\* ------------------------------------------------------------------ spec
Details == {<<>>, <<"boom">>}

Init ==
  /\ present \in Layouts
  /\ statusBox = [innerText |-> <<>>, color |-> ""]
  /\ keysList = <<>>
  /\ getResult = <<>>
  /\ getKeyField = <<>>
  /\ statsBox = <<>>
  /\ alertMsg = Null
  /\ store \in InitStores
  /\ tasks = <<>>
  /\ loaded = FALSE
  /\ ops = 0
  /\ last = Seg("none", NoTask, <<>>)
  /\ prev = <<>>

Next ==
  \/ OnLoad
  \/ \E in \in SetInputs : SetKey(in.key, in.value, in.ttl)
  \/ \E k \in KeyInputs : GetKey(k)
  \/ \E n \in DOMAIN keysList : EntryClick(n)
  \/ \E k \in KeyInputs : DeleteKey(k)
  \/ LoadKeys
  \/ ClearAll
  \/ LoadStats
  \/ CompactWAL
  \/ AlertDismiss
  \/ \E i \in DOMAIN tasks, accept \in BOOLEAN,
        msg \in ClearMessages \cup CompactMessages : StoreAnswer(i, accept, msg)
  \/ \E i \in DOMAIN tasks : NetFail(i)
  \/ \E i \in DOMAIN tasks, parsed \in BOOLEAN, detail \in Details :
        SetKeyResume(i, parsed, detail)
  \/ \E i \in DOMAIN tasks, parsed \in BOOLEAN : GetKeyResume(i, parsed)
  \/ \E i \in DOMAIN tasks, parsed \in BOOLEAN, detail \in Details :
        DeleteKeyResume(i, parsed, detail)
  \/ \E i \in DOMAIN tasks, parsed \in BOOLEAN : LoadKeysResume(i, parsed)
  \/ \E i \in DOMAIN tasks, parsed \in BOOLEAN : ClearAllResume(i, parsed)
  \/ \E i \in DOMAIN tasks, parsed \in BOOLEAN : LoadStatsResume(i, parsed)
  \/ \E i \in DOMAIN tasks, parsed \in BOOLEAN : CompactResume(i, parsed)

Spec == Init /\ [][Next]_vars

\* The ttl computation of setKey over what the operator may type into #ttl:
\* sessions that only save key "a", with every kind of TTL text.
TtlTexts ==
  {<<>>, <<" ">>, <<" ", " ">>, <<"0">>, <<"-", "1">>, <<"5">>, <<" ", "1", "2">>,
   <<"+", "3">>, <<"x">>, <<"7", "x">>}

NextTtl ==
  \/ \E raw \in TtlTexts : SetKey(<<"a">>, <<"1">>, raw)
  \/ \E i \in DOMAIN tasks, accept \in BOOLEAN, msg \in {<<>>} : StoreAnswer(i, accept, msg)
  \/ \E i \in DOMAIN tasks : NetFail(i)
  \/ \E i \in DOMAIN tasks, parsed \in BOOLEAN, detail \in Details :
        SetKeyResume(i, parsed, detail)
  \/ \E i \in DOMAIN tasks, parsed \in BOOLEAN : LoadKeysResume(i, parsed)

SpecTtl == Init /\ [][NextTtl]_vars

\* Sessions that browse a store whose keys include one with a character that
\* is special in a URL ("a?b"): page load, refreshes, clicks on the rendered
\* entries.
KeyStores ==
  {[k \in {<<"a">>, <<"a", "?", "b">>} |->
      [value |-> IF k = <<"a">> THEN <<"1">> ELSE <<"2">>, ttl |-> Null]]}

InitKeys ==
  /\ present \in Layouts
  /\ statusBox = [innerText |-> <<>>, color |-> ""]
  /\ keysList = <<>>
  /\ getResult = <<>>
  /\ getKeyField = <<>>
  /\ statsBox = <<>>
  /\ alertMsg = Null
  /\ store \in KeyStores
  /\ tasks = <<>>
  /\ loaded = FALSE
  /\ ops = 0
  /\ last = Seg("none", NoTask, <<>>)
  /\ prev = <<>>

NextKeys ==
  \/ OnLoad
  \/ LoadKeys
  \/ \E n \in DOMAIN keysList : EntryClick(n)
  \/ \E i \in DOMAIN tasks, accept \in BOOLEAN, msg \in {<<>>} : StoreAnswer(i, accept, msg)
  \/ \E i \in DOMAIN tasks : NetFail(i)
  \/ \E i \in DOMAIN tasks, parsed \in BOOLEAN : GetKeyResume(i, parsed)
  \/ \E i \in DOMAIN tasks, parsed \in BOOLEAN : LoadKeysResume(i, parsed)

SpecKeys == InitKeys /\ [][NextKeys]_vars

\* ---------------------------------------------------------------- claims
HasStatus == "statusBox" \in present

\* The refreshes in flight, and those the chain of a set, delete or clearAll
\* started.
KeysTasks == {j \in DOMAIN tasks : tasks[j].kind = "keys"}
ChainRefreshes == {j \in KeysTasks : tasks[j].cause.kind \in Mutators}

\* The segment that ran last completed a refresh / a refresh that the chain
\* of a set, delete or clearAll had started.
RefreshDone == last.phase = "ok" /\ last.task.kind = "keys"
ChainRefreshDone == RefreshDone /\ last.task.cause.kind \in Mutators

IsSuffix(suf, s) ==
  /\ Len(suf) <= Len(s)
  /\ SubSeq(s, Len(s) - Len(suf) + 1, Len(s)) = suf

\* C1: every GET /keys that the chain of a set, delete or clearAll has issued
\* was issued when that chain's response had arrived and was 2xx: never
\* before the response, never after a failure response.
C1_RefreshOnlyAfterSuccess ==
  \A j \in ChainRefreshes : tasks[j].cause.answered /\ tasks[j].cause.ok

\* C1 witness: a chain's refresh is in flight while another set, delete or
\* clearAll has just taken its failure branch.
C1_Witness ==
  /\ ChainRefreshes # {}
  /\ last.phase = "fail"
  /\ last.task.kind \in Mutators

C4_RefreshReplacesList ==
  RefreshDone
    => /\ keysList = last.task.keys
       /\ HasStatus => statusBox.innerText =
                         <<"[ok] Keys loaded (", ToString(last.task.count), ")">>

\* C5 as stated: a refresh that was started after the previous refresh had
\* completed, with no mutation accepted by the store and no other refresh
\* started since that previous one completed, renders the same list and the
\* same status line as the previous one did.
C5_RefreshIdempotent ==
  (RefreshDone /\ last.task.quiet /\ last.task.base # <<>>)
    => /\ keysList = last.task.base[1].list
       /\ statusBox = last.task.base[1].status

\* The status line a segment's showStatus call leaves, by the function and
\* the branch it took.
C6_Reports(seg) ==
  /\ seg.phase \in {"ok", "fail"}
  /\ seg.task.kind \in {"set", "get", "delete", "keys", "clear"}
C6_Reported(seg) ==
  LET k == seg.task.kind
      good == seg.phase = "ok"
      generic == <<"[x] ">> \o (IF seg.detail = <<>> THEN <<"Error">> ELSE seg.detail)
  IN [innerText |->
        CASE k = "set" -> IF good THEN <<"[ok] Key saved successfully">> ELSE generic
          [] k = "get" -> IF good THEN <<"[ok] Key fetched successfully">>
                                  ELSE <<"[x] Key not found">>
          [] k = "delete" -> IF good THEN <<"[ok] Key deleted: ">> \o seg.task.key
                                     ELSE generic
          [] k = "keys" -> <<"[ok] Keys loaded (", ToString(seg.task.count), ")">>
          [] k = "clear" -> IF good THEN <<"[ok] ">> \o seg.task.message
                                    ELSE <<"[x] Error clearing store">>,
      color |-> IF good THEN "green" ELSE "red"]

C7_LookupMissUniform ==
  ( /\ HasStatus
    /\ last.task.kind = "get"
    /\ \/ last.phase = "fail"
       \/ last.phase = "lost"
       \/ last.phase = "rejected" /\ ~last.task.ok )
    => /\ getResult = <<"Key not found">>
       /\ statusBox = [innerText |-> <<"[x] Key not found">>, color |-> "red"]

\* C8 as stated: a set or delete whose response arrived has, if it was 2xx,
\* reported its success whatever the body, and otherwise reported a failure
\* whose text is the body's detail, or "Error" without a usable detail.
C8_BodyOnlyOnFailure ==
  ( /\ HasStatus
    /\ last.task.kind \in {"set", "delete"}
    /\ last.task.pc = "resp"
    /\ last.phase \in {"ok", "fail", "rejected"} )
    => IF last.task.ok
         THEN /\ last.phase = "ok"
              /\ statusBox.color = "green"
         ELSE /\ statusBox.color = "red"
              /\ statusBox.innerText =
                   <<"[x] ">> \o (IF last.detail = <<>> THEN <<"Error">> ELSE last.detail)

\* C9 as stated: the segment that handles the answer of clearAll, on a 2xx,
\* reports the store's message, issues a refresh and empties the result
\* area; on a non-2xx it reports the clear-failure message and leaves the
\* result area and the rendered list as they were.
C9_ClearAllEffects ==
  [][( /\ HasStatus
       /\ last' # last
       /\ last'.task.kind = "clear"
       /\ last'.task.pc = "resp"
       /\ last'.phase \in {"ok", "fail", "rejected"} )
      => IF last'.task.ok
           THEN /\ statusBox' = [innerText |-> <<"[ok] ">> \o last'.task.message,
                                 color |-> "green"]
                /\ getResult' = <<>>
                /\ HasList => \E j \in DOMAIN tasks' :
                                /\ tasks'[j].kind = "keys"
                                /\ tasks'[j].cause.kind = "clear"
           ELSE /\ statusBox' = [innerText |-> <<"[x] Error clearing store">>,
                                 color |-> "red"]
                /\ getResult' = getResult
                /\ keysList' = keysList]_vars

\* C10 as stated: the refresh that follows a successful clearAll, with no
\* mutation accepted by the store in between, renders an empty list and
\* reports count 0.
C10_ClearComplete ==
  (RefreshDone /\ last.task.cause.kind = "clear" /\ last.task.quiet)
    => /\ keysList = <<>>
       /\ last.task.count = 0
       /\ HasStatus => statusBox.innerText = <<"[ok] Keys loaded (", "0", ")">>

\* C11: round trip.  A get of key k that was started right after the success
\* segment of set(k, v, empty ttl), and that the store answered 2xx with a
\* record it could read while having accepted no mutation in between, renders
\* the record {key: k, value: v, ttl: null} and reports "Key fetched
\* successfully" in green; a get of k started right after the success segment
\* of delete(k), and answered non-2xx under the same condition, renders "Key
\* not found" and reports it in red.
C11_SetThenGet ==
  LET t == last.task
  IN (/\ t.kind = "get" /\ t.after # <<>> /\ t.quiet
      /\ t.after[1].kind = "set" /\ t.after[1].ttl = <<>>
      /\ t.ok /\ last.phase \in {"ok", "fail"})
     => /\ last.phase = "ok"
        /\ getResult = <<"{key: ">> \o t.key \o <<", value: ">> \o t.after[1].value
                          \o <<", ttl: ", "null", "}">>
        /\ HasStatus => statusBox = [innerText |-> <<"[ok] Key fetched successfully">>,
                                     color |-> "green"]
C11_DeleteThenGet ==
  LET t == last.task
  IN (/\ t.kind = "get" /\ t.after # <<>> /\ t.quiet
      /\ t.after[1].kind = "delete"
      /\ ~t.ok /\ last.phase \in {"ok", "fail", "rejected"})
     => /\ getResult = <<"Key not found">>
        /\ HasStatus => statusBox = [innerText |-> <<"[x] Key not found">>,
                                     color |-> "red"]
C11_RoundTrip == "getResult" \in present => C11_SetThenGet /\ C11_DeleteThenGet

\* The /set requests of the session: those in flight and the one whose chain
\* ran last.
SetRequests ==
  {tasks[j] : j \in {k \in DOMAIN tasks : tasks[k].kind = "set"}}
    \cup (IF last.task.kind = "set" THEN {last.task} ELSE {})

\* C12: TTL omission.  Every /set request built from a #ttl field that was
\* empty or held only white space carries ttl null, and not the number 0.
C12_TtlOmission ==
  \A t \in SetRequests :
    (\A c \in Range(t.typed) : c = " ") => t.ttl = <<>> /\ t.ttl # <<0>>

\* A /set request typed with a white-space-only TTL has been accepted by the
\* store and recorded without expiry.
C12_Witness ==
  \E t \in SetRequests :
    /\ t.typed = <<" ", " ">> /\ t.pc = "resp" /\ t.ok /\ t.ttl = <<>>
    /\ <<"a">> \in DOMAIN store /\ store[<<"a">>].ttl = <<>>

\* Chain i resumes on its response, whatever its operation.
Resume(i) ==
  \/ \E parsed \in BOOLEAN, detail \in Details : SetKeyResume(i, parsed, detail)
  \/ \E parsed \in BOOLEAN : GetKeyResume(i, parsed)
  \/ \E parsed \in BOOLEAN, detail \in Details : DeleteKeyResume(i, parsed, detail)
  \/ \E parsed \in BOOLEAN : LoadKeysResume(i, parsed)
  \/ \E parsed \in BOOLEAN : ClearAllResume(i, parsed)
  \/ \E parsed \in BOOLEAN : LoadStatsResume(i, parsed)
  \/ \E parsed \in BOOLEAN : CompactResume(i, parsed)

\* The operator starts any one operation.
Invoke ==
  \/ \E in \in SetInputs : SetKey(in.key, in.value, in.ttl)
  \/ \E k \in KeyInputs : GetKey(k)
  \/ \E k \in KeyInputs : DeleteKey(k)
  \/ ClearAll
  \/ LoadStats
  \/ CompactWAL

\* C13: failure and stall isolation.  Whatever requests are still without a
\* response and whatever chains have failed, as long as no alert() dialog is
\* open: every chain whose response has arrived (a 2xx one, for a refresh) can
\* resume and apply its effects, and the operator can start every operation,
\* which appends its request to those in flight.
C13_Isolation ==
  JsIdle =>
    /\ \A i \in DOMAIN tasks :
         (tasks[i].pc = "resp" /\ (tasks[i].kind = "keys" => tasks[i].ok))
           => ENABLED (Resume(i) /\ last'.phase \in {"ok", "fail", "alert"}
                                 /\ last'.task = tasks[i])
    /\ ops < MaxOps =>
         /\ ENABLED (\E in \in SetInputs : SetKey(in.key, in.value, in.ttl))
         /\ ENABLED (\E k \in KeyInputs : GetKey(k))
         /\ ENABLED (\E k \in KeyInputs : DeleteKey(k))
         /\ ENABLED ClearAll
         /\ ENABLED LoadStats
         /\ ENABLED CompactWAL
         /\ ENABLED (Invoke /\ Len(tasks') = Len(tasks) + 1
                            /\ tasks'[Len(tasks')].pc = "fetch")

\* A chain has just failed, the oldest request in flight has no response yet,
\* and a chain started after it has its response and can resume.
C13_Witness ==
  /\ JsIdle
  /\ last.phase \in {"lost", "rejected"}
  /\ Len(tasks) >= 2
  /\ tasks[1].pc = "fetch"
  /\ tasks[2].pc = "resp" /\ tasks[2].kind \in Mutators /\ tasks[2].ok
  /\ ENABLED (Resume(2) /\ last'.phase = "ok")

\* The stats refreshes in flight that a compactWAL() chain started.
CompactStats(ts) == {j \in DOMAIN ts : ts[j].kind = "stats" /\ ts[j].cause.kind = "compact"}

\* C14: compact.  The segment that resumes compactWAL() on a JSON body opens
\* the dialog with the server's message, or with "WAL compacted" when the body
\* has none; no segment of compactWAL() changes the status line or the
\* rendered key list; and a GET /stats of a compactWAL() chain is issued only
\* by the step that dismisses the dialog, for a chain whose /compact response
\* had arrived.
C14_Compact ==
  [][/\ \A i \in DOMAIN tasks, parsed \in BOOLEAN :
          CompactResume(i, parsed)
            => /\ statusBox' = statusBox /\ keysList' = keysList
               /\ CompactStats(tasks') = CompactStats(Remove(tasks, i))
               /\ parsed => alertMsg' = <<IF tasks[i].message = <<>>
                                            THEN <<"WAL compacted">>
                                            ELSE tasks[i].message>>
     /\ (CompactWAL \/ AlertDismiss) => statusBox' = statusBox /\ keysList' = keysList
     /\ CompactWAL => Cardinality(CompactStats(tasks')) = Cardinality(CompactStats(tasks))
     /\ Cardinality(CompactStats(tasks')) > Cardinality(CompactStats(tasks))
          => /\ alertMsg # Null /\ alertMsg' = Null
             /\ last.task.kind = "compact" /\ last.phase = "alert"
             /\ tasks'[Len(tasks')].kind = "stats"
             /\ tasks'[Len(tasks')].cause.answered
             /\ tasks'[Len(tasks')].pc = "fetch"]_vars

\* The dialog showing the server's message has been dismissed and the stats
\* refresh of that compactWAL() chain is in flight, the status line and the
\* list still showing what a refresh had rendered.
C14_Witness ==
  /\ last.phase = "ok" /\ last.task.kind = "compact"
  /\ last.task.message = <<"Compaction done">>
  /\ alertMsg = Null
  /\ \E j \in CompactStats(tasks) : tasks[j].cause.answered /\ tasks[j].pc = "fetch"
  /\ keysList # <<>>
  /\ statusBox.innerText = <<"[ok] Keys loaded (", "1", ")">>

\* C15: entry activation.  A click on the n-th rendered entry puts that
\* entry's text into the lookup field and issues one GET /get/ request whose
\* URL names exactly that key; and whatever record the store answers to a
\* request started by an entry is the record of that entry's key.
C15_EntryLookup ==
  [][/\ \A n \in DOMAIN keysList :
          EntryClick(n)
            => /\ getKeyField' = keysList[n]
               /\ Len(tasks') = Len(tasks) + 1
               /\ LET t == tasks'[Len(tasks')]
                  IN /\ t.kind = "get" /\ t.pc = "fetch"
                     /\ Head(t.url) = "/get/"
                     /\ PathKey(Tail(t.url)) = keysList[n]
     /\ \A j \in DOMAIN tasks' :
          (tasks'[j].kind = "get" /\ tasks'[j].cause.kind = "entry" /\ tasks'[j].ok)
            => tasks'[j].rec[1].key = tasks'[j].typed]_vars

\* The kinds of the requests in flight, in issue order.
Kinds(ts) == [j \in DOMAIN ts |-> ts[j].kind]

\* C16: no request is retried or duplicated.  On a page with a key list, step
\* by step: an invocation of set, get, delete, clearAll, stats refresh or
\* compact issues one request of its own kind and nothing else; the page load
\* issues one GET /keys; the chain of a set, delete or clearAll that resumes on
\* its response issues one GET /keys when that response is 2xx and no request
\* otherwise; dismissing the dialog of compact issues one GET /stats; no other
\* step (a get, refresh, stats or compact chain resuming, a lost request, the
\* store answering) issues any request.  Summed over a session this is the
\* count of the claim: GET /keys requests = page loads + set, delete and
\* clearAll responses received with success (+ refreshes the operator asked
\* for directly).
C16_NoRetry ==
  [][HasList =>
       LET was == Kinds(tasks)
           now == Kinds(tasks')
       IN /\ (\E in \in SetInputs : SetKey(in.key, in.value, in.ttl)) => now = Append(was, "set")
          /\ ((\E k \in KeyInputs : GetKey(k)) \/ (\E n \in DOMAIN keysList : EntryClick(n)))
               => now = Append(was, "get")
          /\ (\E k \in KeyInputs : DeleteKey(k)) => now = Append(was, "delete")
          /\ ClearAll => now = Append(was, "clear")
          /\ LoadStats => now = Append(was, "stats")
          /\ CompactWAL => now = Append(was, "compact")
          /\ OnLoad => now = Append(was, "keys")
          /\ AlertDismiss => now = Append(was, "stats")
          /\ \A i \in DOMAIN tasks :
               /\ ((\E parsed \in BOOLEAN, detail \in Details :
                       \/ SetKeyResume(i, parsed, detail)
                       \/ DeleteKeyResume(i, parsed, detail)
                       \/ ClearAllResume(i, parsed))
                     => now = IF tasks[i].ok THEN Append(Remove(was, i), "keys")
                                             ELSE Remove(was, i))
               /\ ((\E parsed \in BOOLEAN :
                       \/ GetKeyResume(i, parsed) \/ LoadKeysResume(i, parsed)
                       \/ LoadStatsResume(i, parsed) \/ CompactResume(i, parsed))
                     => now = Remove(was, i))
               /\ NetFail(i) => now = Remove(was, i)
               /\ (\E accept \in BOOLEAN, msg \in ClearMessages \cup CompactMessages :
                      StoreAnswer(i, accept, msg)) => now = was]_vars

\* C17: the ttl of every /set request is null or a positive integer, whatever
\* text the operator typed into the TTL field.
C17_TtlPositive ==
  \A t \in SetRequests : t.ttl = <<>> \/ t.ttl[1] > 0

\* The success message of the chain of mutation t.
C18_OwnMessage(t) ==
  CASE t.kind = "set" -> <<"[ok] Key saved successfully">>
    [] t.kind = "delete" -> <<"[ok] Key deleted: ">> \o t.key
    [] t.kind = "clear" -> <<"[ok] ">> \o t.message

\* C18: status of a successful mutation chain.  On a page with a status line
\* and a key list: the segment in which a set, delete or clearAll chain takes
\* its success branch leaves the chain's own success message on the status line
\* (green) with the chain's GET /keys just issued and not yet answered; and
\* the segment in which that refresh renders its response replaces it by
\* "Keys loaded (count)" (green), count being the count of that response.
C18_ChainStatus ==
  [][(HasStatus /\ HasList) =>
       \A i \in DOMAIN tasks :
         /\ ((\E parsed \in BOOLEAN, detail \in Details :
                 \/ SetKeyResume(i, parsed, detail)
                 \/ DeleteKeyResume(i, parsed, detail)
                 \/ ClearAllResume(i, parsed)) /\ last'.phase = "ok")
              => /\ statusBox' = [innerText |-> C18_OwnMessage(tasks[i]), color |-> "green"]
                 /\ tasks' # <<>>
                 /\ tasks'[Len(tasks')].kind = "keys"
                 /\ tasks'[Len(tasks')].pc = "fetch"
                 /\ tasks'[Len(tasks')].cause.kind = tasks[i].kind
         /\ ((\E parsed \in BOOLEAN : LoadKeysResume(i, parsed))
               /\ tasks[i].cause.kind \in Mutators /\ last'.phase = "ok")
              => statusBox' = [innerText |-> <<"[ok] Keys loaded (",
                                               ToString(tasks[i].count), ")">>,
                               color |-> "green"]]_vars

\* A set was the only operation of the session; its chain has completed with
\* its refresh rendering the one key of the store, and the status line shows
\* the refresh's message.
C18_Witness ==
  /\ ops = 1 /\ ~loaded /\ tasks = <<>>
  /\ ChainRefreshDone /\ last.task.cause.kind = "set" /\ last.task.alone
  /\ keysList = <<<<"a">>>>
  /\ statusBox = [innerText |-> <<"[ok] Keys loaded (", "1", ")">>, color |-> "green"]

\* C19: a refresh empties the list when it starts.  On a page with a key
\* list, after every step: while a refresh is in flight (just started,
\* unanswered or answered) and no refresh has rendered since it started, the
\* rendered list is empty; and the step in which a refresh ends without
\* rendering (its request lost, or its response not usable) changes neither
\* the list, which stays empty under the same condition, nor the status line.
C19_RefreshEmpties ==
  [][HasList =>
       /\ \A j \in DOMAIN tasks' :
            (tasks'[j].kind = "keys" /\ tasks'[j].clean) => keysList' = <<>>
       /\ \A i \in DOMAIN tasks :
            (/\ tasks[i].kind = "keys"
             /\ \/ NetFail(i)
                \/ \E parsed \in BOOLEAN :
                     LoadKeysResume(i, parsed) /\ last'.phase = "rejected")
              => /\ statusBox' = statusBox
                 /\ keysList' = keysList
                 /\ tasks[i].clean => keysList' = <<>>]_vars

\* A refresh that was started over a rendered, non-empty list has lost its
\* request: the list is empty and the status line still shows what the
\* refresh before it had written.
C19_Witness ==
  /\ HasList /\ HasStatus
  /\ last.phase = "lost" /\ last.task.kind = "keys" /\ last.task.clean
  /\ last.task.base # <<>>
  /\ last.task.base[1].list # <<>>
  /\ keysList = <<>>
  /\ statusBox = last.task.base[1].status
  /\ KeysTasks = {}

=============================================================================
